---- MODULE Spec2Model ----
(***************************************************************************)
(* Model of the in-memory backend (BufferFS / BFile) of lamg/filesystem.   *)
(* The registry is the Go map Bfs from path to *BFile; a *BFile is a       *)
(* pointer, modelled as an index into heap.  A BFile embeds *bytes.Buffer, *)
(* modelled by its slice buf and read offset off.                          *)
(***************************************************************************)
EXTENDS Integers, Sequences, FiniteSets

VARIABLES Bfs, heap, hnd, track, wide

vars == <<Bfs, heap, hnd, track, wide>>

\* ---- bounds of the exploration ------------------------------------------
MaxRec == 2    \* records allocated by NewBFile over a run
MaxLen == 2    \* bytes written over a run
MaxBuf == 2    \* length of the buffer handed to Read

Paths == {"a", "b"}
Bytes == {1, 2}          \* byte values of the contents the properties range over
Handles == {"h1", "h2"}

ByteSeqs(n) == UNION {[1..k -> Bytes] : k \in 0..n}

Take(s, n) == SubSeq(s, 1, IF n < Len(s) THEN n ELSE Len(s))
Drop(s, n) == SubSeq(s, n + 1, Len(s))

\* ---- errors: fmt.Errorf(format, arg); the nil error; io.EOF ---------------
Nil == [fmt |-> "", arg |-> ""]
EOF == [fmt |-> "EOF", arg |-> ""]
ErrNotFoundFile(name) == [fmt |-> "Not found file %s", arg |-> name]
ErrDoesntExist(name) == [fmt |-> "File %s doesn't exists", arg |-> name]
ErrNotImplemented == [fmt |-> "Not implemented", arg |-> ""]

\* the spec's error taxonomy, read off the message
IsNotFound(e) == e.fmt \in {"Not found file %s", "File %s doesn't exists"}
IsUnimplemented(e) == e.fmt = "Not implemented"

\* ---- Go map primitives ---------------------------------------------------
MapSet(m, k, v) == [x \in (DOMAIN m) \cup {k} |-> IF x = k THEN v ELSE m[x]]
MapDelete(m, k) == [x \in (DOMAIN m) \ {k} |-> m[x]]

\* the nil *BFile (what a failed map lookup yields)
NilFile == 0

\* ---- BFile: the embedded *bytes.Buffer ------------------------------------
\* wr and rd are history fields: every byte written to the record and every
\* byte handed out by Read, in order.  No operation reads them.
\* NewBFile over a buffer that is not empty
NewBFile_padded(content) ==
  [buf |-> <<0>> \o content, off |-> 0, wr |-> <<0>> \o content, rd |-> <<>>]

NewBFile(content) ==
  [buf |-> content, off |-> 0, wr |-> content, rd |-> <<>>]

\* bytes.Buffer.Bytes: the unread portion buf[off:]
BufBytes(b) == Drop(b.buf, b.off)

\* bytes.Buffer.Write: append, return len(p) and a nil error
BufWrite(b, p) ==
  [b |-> [b EXCEPT !.buf = b.buf \o p, !.wr = b.wr \o p],
   n |-> Len(p), e |-> Nil]

\* Read that copies without advancing off
BufRead_notAdvancing(b, n) ==
  IF b.off >= Len(b.buf)
  THEN [b |-> [b EXCEPT !.buf = <<>>, !.off = 0],
        n |-> 0, e |-> IF n = 0 THEN Nil ELSE EOF, bs |-> <<>>]
  ELSE LET out == Take(BufBytes(b), n)
       IN [b |-> [b EXCEPT !.rd = b.rd \o out],
           n |-> Len(out), e |-> Nil, bs |-> out]

\* bytes.Buffer.Read with a buffer of length n: an empty buffer is Reset and
\* yields io.EOF (nil for n = 0); otherwise copy and advance off
BufRead(b, n) ==
  IF b.off >= Len(b.buf)
  THEN [b |-> [b EXCEPT !.buf = <<>>, !.off = 0],
        n |-> 0, e |-> IF n = 0 THEN Nil ELSE EOF, bs |-> <<>>]
  ELSE LET out == Take(BufBytes(b), n)
       IN [b |-> [b EXCEPT !.off = b.off + Len(out), !.rd = b.rd \o out],
           n |-> Len(out), e |-> Nil, bs |-> out]

\* ---- BufferFS operations on a filesystem value fs = [Bfs, heap] -----------
NewBufferFS == [Bfs |-> <<>>, heap |-> <<>>]

\* Open that registers an empty record for a missing name
OpenF_creating(fs, name) ==
  IF name \in DOMAIN fs.Bfs
  THEN [fs |-> fs, f |-> fs.Bfs[name], e |-> Nil]
  ELSE LET h2 == Append(fs.heap, NewBFile(<<>>))
       IN [fs |-> [Bfs |-> MapSet(fs.Bfs, name, Len(h2)), heap |-> h2],
           f |-> NilFile, e |-> ErrNotFoundFile(name)]

\* Open that hands out a copy of the stored record
OpenF_copying(fs, name) ==
  IF name \in DOMAIN fs.Bfs
  THEN LET h2 == Append(fs.heap, fs.heap[fs.Bfs[name]])
       IN [fs |-> [fs EXCEPT !.heap = h2], f |-> Len(h2), e |-> Nil]
  ELSE [fs |-> fs, f |-> NilFile, e |-> ErrNotFoundFile(name)]

OpenF(fs, name) ==
  IF name \in DOMAIN fs.Bfs
  THEN [fs |-> fs, f |-> fs.Bfs[name], e |-> Nil]
  ELSE [fs |-> fs, f |-> NilFile, e |-> ErrNotFoundFile(name)]

\* ReadFile that consumes what it returns
ReadFileF_draining(fs, name) ==
  IF name \in DOMAIN fs.Bfs
  THEN LET f == fs.Bfs[name]
       IN [fs |-> [fs EXCEPT !.heap[f].off = Len(fs.heap[f].buf)],
           bs |-> BufBytes(fs.heap[f]), e |-> Nil]
  ELSE [fs |-> fs, bs |-> <<>>, e |-> ErrDoesntExist(name)]

ReadFileF(fs, name) ==
  IF name \in DOMAIN fs.Bfs
  THEN [fs |-> fs, bs |-> BufBytes(fs.heap[fs.Bfs[name]]), e |-> Nil]
  ELSE [fs |-> fs, bs |-> <<>>, e |-> ErrDoesntExist(name)]

\* Create that returns a second NewBFile instead of the stored one
CreateF_returningOther(fs, name) ==
  LET h2 == Append(Append(fs.heap, NewBFile(<<>>)), NewBFile(<<>>))
      m2 == MapSet(fs.Bfs, name, Len(h2) - 1)
  IN [fs |-> [Bfs |-> m2, heap |-> h2], f |-> Len(h2), e |-> Nil]

\* Create that starts from an empty map
CreateF_replacingAll(fs, name) ==
  LET h2 == Append(fs.heap, NewBFile(<<>>))
      m2 == MapSet(<<>>, name, Len(h2))
  IN [fs |-> [Bfs |-> m2, heap |-> h2], f |-> m2[name], e |-> Nil]

\* Create that keeps the record already stored at name
CreateF_keeping(fs, name) ==
  IF name \in DOMAIN fs.Bfs
  THEN [fs |-> fs, f |-> fs.Bfs[name], e |-> Nil]
  ELSE LET h2 == Append(fs.heap, NewBFile(<<>>))
       IN [fs |-> [Bfs |-> MapSet(fs.Bfs, name, Len(h2)), heap |-> h2],
           f |-> Len(h2), e |-> Nil]

CreateF(fs, name) ==
  LET h2 == Append(fs.heap, NewBFile(<<>>))
      m2 == MapSet(fs.Bfs, name, Len(h2))
  IN [fs |-> [Bfs |-> m2, heap |-> h2], f |-> m2[name], e |-> Nil]

\* Rename that exchanges the two entries
RenameF_swapping(fs, old, new) ==
  IF old \in DOMAIN fs.Bfs
  THEN [fs |-> [fs EXCEPT !.Bfs =
                  IF new \in DOMAIN fs.Bfs
                  THEN MapSet(MapSet(fs.Bfs, old, fs.Bfs[new]), new, fs.Bfs[old])
                  ELSE MapSet(MapDelete(fs.Bfs, old), new, fs.Bfs[old])],
        e |-> Nil]
  ELSE [fs |-> fs, e |-> ErrDoesntExist(old)]

\* Rename without the delete(b.Bfs, old)
RenameF_keepingOld(fs, old, new) ==
  IF old \in DOMAIN fs.Bfs
  THEN [fs |-> [fs EXCEPT !.Bfs = MapSet(fs.Bfs, new, fs.Bfs[old])], e |-> Nil]
  ELSE [fs |-> fs, e |-> ErrDoesntExist(old)]

\* Rename that stores the looked-up (nil) pointer at new before failing
RenameF_storingNil(fs, old, new) ==
  IF old \in DOMAIN fs.Bfs
  THEN [fs |-> [fs EXCEPT !.Bfs = MapSet(MapDelete(fs.Bfs, old), new, fs.Bfs[old])],
        e |-> Nil]
  ELSE [fs |-> [fs EXCEPT !.Bfs = MapSet(fs.Bfs, new, NilFile)],
        e |-> ErrDoesntExist(old)]

RenameF(fs, old, new) ==
  IF old \in DOMAIN fs.Bfs
  THEN [fs |-> [fs EXCEPT !.Bfs = MapSet(MapDelete(fs.Bfs, old), new, fs.Bfs[old])],
        e |-> Nil]
  ELSE [fs |-> fs, e |-> ErrDoesntExist(old)]

\* Stat that looks the name up
StatF_checking(fs, name) ==
  IF name \in DOMAIN fs.Bfs
  THEN [fs |-> fs, info |-> "nil", e |-> Nil]
  ELSE [fs |-> fs, info |-> "nil", e |-> ErrNotFoundFile(name)]

\* BufferFS.Stat: the named results are returned unset
StatF(fs, name) == [fs |-> fs, info |-> "nil", e |-> Nil]

\* ---- BFile operations through a handle f (an index into heap) -------------
WriteF(fs, f, p) ==
  LET r == BufWrite(fs.heap[f], p)
  IN [fs |-> [fs EXCEPT !.heap[f] = r.b], n |-> r.n, e |-> r.e]

ReadF(fs, f, n) ==
  LET r == BufRead(fs.heap[f], n)
  IN [fs |-> [fs EXCEPT !.heap[f] = r.b], n |-> r.n, e |-> r.e, bs |-> r.bs]

\* Close with the b.bf.Reset() of its TODO
CloseF_resetting(fs, f) ==
  [fs |-> [fs EXCEPT !.heap[f] = [fs.heap[f] EXCEPT !.buf = <<>>, !.off = 0]],
   e |-> ErrNotImplemented]

CloseF(fs, f) == [fs |-> fs, e |-> ErrNotImplemented]
FileStatF(fs, f) == [fs |-> fs, info |-> "nil", e |-> ErrNotImplemented]
ReadAtF(fs, f, n, off) == [fs |-> fs, n |-> 0, e |-> ErrNotImplemented]
SeekF(fs, f, offset, whence) == [fs |-> fs, n |-> 0, e |-> ErrNotImplemented]

\* ---- the sequence ReadFile is documented by: Open, read to the end, Close --
\* ioutil.ReadAll: Read into a buffer until io.EOF, which it reports as nil
ReadAllBuf == MaxBuf

RECURSIVE ReadAllF(_, _)
ReadAllF(fs, f) ==
  LET r == ReadF(fs, f, ReadAllBuf)
  IN IF r.e # Nil
     THEN [fs |-> r.fs, bs |-> <<>>, e |-> IF r.e = EOF THEN Nil ELSE r.e]
     ELSE LET rest == ReadAllF(r.fs, f)
          IN [fs |-> rest.fs, bs |-> r.bs \o rest.bs, e |-> rest.e]

OpenReadAllClose(fs, name) ==
  LET o == OpenF(fs, name)
  IN IF o.e # Nil
     THEN [fs |-> o.fs, bs |-> <<>>, e |-> o.e]
     ELSE LET ra == ReadAllF(o.fs, o.f)
              cl == CloseF(ra.fs, o.f)
          IN [fs |-> cl.fs, bs |-> ra.bs, e |-> IF ra.e # Nil THEN ra.e ELSE cl.e]

\* ---- OSFS: every method forwards to the os package; the outcome of each call
\* on a filesystem holding the files of fs.Bfs (os.Open, os.Stat, os.Rename
\* and ioutil.ReadFile fail on a missing path, os.Create truncates or creates,
\* Close and Stat on an *os.File succeed)
OSOpenKind(fs, name) == IF name \in DOMAIN fs.Bfs THEN "ok" ELSE "NotFound"
OSReadFileKind(fs, name) == IF name \in DOMAIN fs.Bfs THEN "ok" ELSE "NotFound"
OSRenameKind(fs, old, new) == IF old \in DOMAIN fs.Bfs THEN "ok" ELSE "NotFound"
OSStatKind(fs, name) == IF name \in DOMAIN fs.Bfs THEN "ok" ELSE "NotFound"
OSCreateKind(fs, name) == "ok"
OSCloseKind(fs, f) == "ok"
OSFileStatKind(fs, f) == "ok"

\* ---- the state machine ---------------------------------------------------
FS == [Bfs |-> Bfs, heap |-> heap]

NoHandle == [rec |-> NilFile, path |-> "", clean |-> FALSE, live |-> FALSE]

\* hnd[h] is the File the caller keeps in its variable h: rec is the pointer
\* (nil after a failed Open); path, clean and live are history fields, kept
\* when track is set: the path of the call that returned it, whether it came
\* from a successful Open with no Create and no successful Rename since, and
\* whether it came from Open or Create with none since.
Got(f, name, opened) ==
  IF f = NilFile THEN NoHandle
  ELSE [rec |-> f, path |-> IF track THEN name ELSE "",
        clean |-> track /\ opened, live |-> track]

\* a Create or a successful Rename ends the "nothing in between" of every
\* handle obtained before it
Dirty(hs) == [h \in Handles |-> [hs[h] EXCEPT !.clean = FALSE, !.live = FALSE]]

\* the paths, the caller's variables and the records of a run: a wide run
\* has a third path, one record for each path, and one variable
AllPaths == Paths \cup {"c"}
PathsIn == IF wide THEN AllPaths ELSE Paths
HandlesIn == IF wide THEN {"h1"} ELSE Handles
RecBudget == IF wide THEN Cardinality(AllPaths) ELSE MaxRec

\* bytes written to all records so far
RECURSIVE Written(_)
Written(hp) == IF hp = <<>> THEN 0 ELSE Len(Head(hp).wr) + Written(Tail(hp))

\* the input of a Write: k bytes never written before (the program never
\* inspects a byte, so distinct values stand for every content)
Fresh(k) == [i \in 1..k |-> Written(heap) + i]

Init ==
  /\ Bfs = NewBufferFS.Bfs
  /\ heap = NewBufferFS.heap
  /\ hnd = [h \in Handles |-> NoHandle]
  /\ track = FALSE
  /\ wide = FALSE

\* the same program with the handles' history fields kept
InitTracked ==
  /\ Bfs = NewBufferFS.Bfs
  /\ heap = NewBufferFS.heap
  /\ hnd = [h \in Handles |-> NoHandle]
  /\ track = TRUE
  /\ wide = FALSE

\* the same program over three paths
InitWide ==
  /\ Bfs = NewBufferFS.Bfs
  /\ heap = NewBufferFS.heap
  /\ hnd = [h \in Handles |-> NoHandle]
  /\ track = FALSE
  /\ wide = TRUE

Open(name, h) ==
  LET r == OpenF(FS, name)
  IN /\ name \in PathsIn /\ h \in HandlesIn
     /\ Bfs' = r.fs.Bfs /\ heap' = r.fs.heap
     /\ hnd' = [hnd EXCEPT ![h] = Got(r.f, name, r.e = Nil)]
     /\ UNCHANGED <<track, wide>>

Create(name, h) ==
  /\ name \in PathsIn /\ h \in HandlesIn
  /\ Len(heap) < RecBudget
  /\ LET r == CreateF(FS, name)
     IN /\ Bfs' = r.fs.Bfs /\ heap' = r.fs.heap
        /\ hnd' = [Dirty(hnd) EXCEPT ![h] =
                     Got(r.f, name, FALSE)]
        /\ UNCHANGED <<track, wide>>

ReadFile(name) ==
  LET r == ReadFileF(FS, name)
  IN /\ name \in PathsIn
     /\ Bfs' = r.fs.Bfs /\ heap' = r.fs.heap
     /\ UNCHANGED <<hnd, track, wide>>

Rename(old, new) ==
  LET r == RenameF(FS, old, new)
  IN /\ old \in PathsIn /\ new \in PathsIn
     /\ Bfs' = r.fs.Bfs /\ heap' = r.fs.heap
     /\ hnd' = IF r.e = Nil THEN Dirty(hnd) ELSE hnd
     /\ UNCHANGED <<track, wide>>

Stat(name) ==
  LET r == StatF(FS, name)
  IN /\ name \in PathsIn
     /\ Bfs' = r.fs.Bfs /\ heap' = r.fs.heap
     /\ UNCHANGED <<hnd, track, wide>>

Write(h, p) ==
  /\ h \in HandlesIn /\ hnd[h].rec # NilFile
  /\ Written(heap) + Len(p) <= MaxLen
  /\ LET r == WriteF(FS, hnd[h].rec, p)
     IN /\ Bfs' = r.fs.Bfs /\ heap' = r.fs.heap
        /\ UNCHANGED <<hnd, track, wide>>

Read(h, n) ==
  /\ h \in HandlesIn /\ hnd[h].rec # NilFile
  /\ LET r == ReadF(FS, hnd[h].rec, n)
     IN /\ Bfs' = r.fs.Bfs /\ heap' = r.fs.heap
        /\ UNCHANGED <<hnd, track, wide>>

Close(h) ==
  /\ h \in HandlesIn /\ hnd[h].rec # NilFile
  /\ LET r == CloseF(FS, hnd[h].rec)
     IN /\ Bfs' = r.fs.Bfs /\ heap' = r.fs.heap
        /\ UNCHANGED <<hnd, track, wide>>

FileStat(h) ==
  /\ h \in HandlesIn /\ hnd[h].rec # NilFile
  /\ LET r == FileStatF(FS, hnd[h].rec)
     IN /\ Bfs' = r.fs.Bfs /\ heap' = r.fs.heap
        /\ UNCHANGED <<hnd, track, wide>>

ReadAt(h, n, off) ==
  /\ h \in HandlesIn /\ hnd[h].rec # NilFile
  /\ LET r == ReadAtF(FS, hnd[h].rec, n, off)
     IN /\ Bfs' = r.fs.Bfs /\ heap' = r.fs.heap
        /\ UNCHANGED <<hnd, track, wide>>

Seek(h, offset, whence) ==
  /\ h \in HandlesIn /\ hnd[h].rec # NilFile
  /\ LET r == SeekF(FS, hnd[h].rec, offset, whence)
     IN /\ Bfs' = r.fs.Bfs /\ heap' = r.fs.heap
        /\ UNCHANGED <<hnd, track, wide>>

Next ==
  \/ \E name \in AllPaths, h \in Handles : Open(name, h)
  \/ \E name \in AllPaths, h \in Handles : Create(name, h)
  \/ \E name \in AllPaths : ReadFile(name)
  \/ \E old \in AllPaths, new \in AllPaths : Rename(old, new)
  \/ \E name \in AllPaths : Stat(name)
  \/ \E h \in Handles, k \in 0..MaxLen : Write(h, Fresh(k))
  \/ \E h \in Handles, n \in 0..MaxBuf : Read(h, n)
  \/ \E h \in Handles : Close(h)
  \/ \E h \in Handles : FileStat(h)
  \/ \E h \in Handles, off \in 0..1 : ReadAt(h, 1, off)
  \/ \E h \in Handles, whence \in 0..2 : Seek(h, 0, whence)

Spec == Init /\ [][Next]_vars

SpecTracked == InitTracked /\ [][Next]_vars

SpecWide == InitWide /\ [][Next]_vars

TypeOK ==
  /\ DOMAIN Bfs \subseteq PathsIn
  /\ \A p \in DOMAIN Bfs : Bfs[p] \in 1..Len(heap)
  /\ Len(heap) <= RecBudget
  /\ \A h \in Handles : hnd[h].rec \in 0..Len(heap)

\* ---- properties ------------------------------------------------------------
\* contents the claims quantify over (no operation inspects a byte)
Contents == ByteSeqs(2)
Present(p) == p \in DOMAIN Bfs
Unread(p) == BufBytes(heap[Bfs[p]])

\* C1: in every state, for every path p and content B, Create(p), Write(B)
\* through the returned handle, then ReadFile(p) returns exactly B and no
\* call fails.
C1_RoundTrip ==
  \A p \in Paths, B \in Contents :
    LET c == CreateF(FS, p)
        w == WriteF(c.fs, c.f, B)
        r == ReadFileF(w.fs, p)
    IN c.e = Nil /\ w.e = Nil /\ w.n = Len(B) /\ r.e = Nil /\ r.bs = B

\* a prior state where p already holds unread and consumed bytes, from which
\* the round trip of a non-empty B comes back alone
C1_Witness ==
  \E p \in Paths :
    /\ Present(p) /\ Unread(p) # <<>> /\ heap[Bfs[p]].rd # <<>>
    /\ LET c == CreateF(FS, p)
       IN ReadFileF(WriteF(c.fs, c.f, <<2, 1>>).fs, p).bs = <<2, 1>>

\* what Rename(a, b) of a present a must leave behind, a # b
RenameMoved(a, b) ==
  LET r == RenameF(FS, a, b)
      oa == OpenF(r.fs, a)
      ob == OpenF(r.fs, b)
  IN /\ r.e = Nil
     /\ IsNotFound(oa.e) /\ oa.f = NilFile
     /\ IsNotFound(ReadFileF(r.fs, a).e)
     /\ ob.e = Nil /\ ob.f = Bfs[a]
     /\ r.fs.heap[ob.f] = heap[Bfs[a]]
     /\ ReadFileF(r.fs, b).e = Nil
     /\ ReadFileF(r.fs, b).bs = Unread(a)

\* C2 as stated: for every pair of paths a, b with a present, after
\* Rename(a, b) the path a is NotFound and b yields the record that was at a.
C2_RenameAnyPair ==
  \A a \in Paths, b \in Paths : Present(a) => RenameMoved(a, b)

\* C2 amended: the same for distinct a and b; Rename(a, a) of a present a
\* succeeds and leaves the record at a, so Open(a) still succeeds.
C2_RenameDistinct ==
  \A a \in Paths, b \in Paths :
    Present(a) =>
      IF a # b THEN RenameMoved(a, b)
      ELSE LET r == RenameF(FS, a, a)
           IN r.e = Nil /\ r.fs = FS /\ OpenF(r.fs, a).e = Nil
              /\ OpenF(r.fs, a).f = Bfs[a]

\* a holds unread bytes and b holds another record when a is renamed onto b
C2_Witness ==
  \E a \in Paths, b \in Paths :
    /\ a # b /\ Present(a) /\ Present(b) /\ Bfs[a] # Bfs[b]
    /\ Unread(a) # <<>> /\ Unread(b) # Unread(a)
    /\ ReadFileF(RenameF(FS, a, b).fs, b).bs = Unread(a)

\* C3: Rename(a, b) of an absent a returns NotFound and leaves the registry
\* and every record as they were; nothing appears at b and what is at b stays.
C3_RenameMissing ==
  \A a \in Paths, b \in Paths :
    ~Present(a) =>
      LET r == RenameF(FS, a, b)
      IN IsNotFound(r.e) /\ r.fs.Bfs = Bfs /\ r.fs.heap = heap

\* a is absent (it was renamed away) while b holds bytes, and Rename(a, b)
\* fails
C3_Witness ==
  \E a \in Paths, b \in Paths :
    /\ ~Present(a) /\ Present(b) /\ Unread(b) # <<>>
    /\ IsNotFound(RenameF(FS, a, b).e)

C5_CreateThenOpen ==
  \A p \in Paths :
    LET c == CreateF(FS, p)
        o == OpenF(c.fs, p)
        r == ReadFileF(o.fs, p)
    IN /\ c.e = Nil /\ o.e = Nil /\ o.f = c.f /\ o.f # NilFile
       /\ r.e = Nil /\ r.bs = <<>>
       /\ \A n \in 1..MaxBuf :
            LET rd == ReadF(o.fs, o.f, n)
            IN rd.n = 0 /\ rd.e = EOF /\ rd.bs = <<>>

\* p holds unread bytes when it is created again
C5_Witness ==
  \E p \in Paths :
    /\ Present(p) /\ Len(Unread(p)) = MaxLen
    /\ ReadFileF(OpenF(CreateF(FS, p).fs, p).fs, p).bs = <<>>

\* C6 as stated: for every path that is not in the registry, Open and Stat
\* agree that it does not exist: both return NotFound.
C6_StatAgreesWithOpen ==
  \A p \in Paths :
    ~Present(p) => IsNotFound(OpenF(FS, p).e) /\ IsNotFound(StatF(FS, p).e)

\* two handles returned by Open(p) with no Create and no successful Rename
\* since the earlier of the two calls
Aliases(p, h1, h2) ==
  /\ h1 # h2
  /\ hnd[h1].clean /\ hnd[h1].path = p
  /\ hnd[h2].clean /\ hnd[h2].path = p

\* C7: two handles from two Open(p) calls with no Create or Rename in between
\* are the record stored at p, and bytes written through the first are what a
\* Read through either, a later Open(p) and ReadFile(p) see after the bytes
\* that were unread before.
C7_Aliasing ==
  \A p \in Paths, h1 \in Handles, h2 \in Handles :
    Aliases(p, h1, h2) =>
      /\ Present(p) /\ hnd[h1].rec = Bfs[p] /\ hnd[h2].rec = Bfs[p]
      /\ \A B \in Contents :
           LET w == WriteF(FS, hnd[h1].rec, B)
               all == Unread(p) \o B
           IN /\ ReadFileF(w.fs, p).bs = all
              /\ OpenF(w.fs, p).e = Nil /\ OpenF(w.fs, p).f = hnd[h1].rec
              /\ \A n \in 1..MaxBuf :
                   /\ ReadF(w.fs, hnd[h2].rec, n).bs = Take(all, n)
                   /\ ReadF(w.fs, hnd[h1].rec, n).bs = Take(all, n)

\* both handles come from Open(p), the record holds nothing unread, and the
\* bytes written through h1 are the ones a Read through h2 returns
C7_Witness ==
  \E p \in Paths :
    /\ Aliases(p, "h1", "h2") /\ Present(p) /\ Unread(p) = <<>>
    /\ heap[Bfs[p]].rd # <<>>
    /\ ReadF(WriteF(FS, hnd["h1"].rec, <<2>>).fs, hnd["h2"].rec, 1).bs = <<2>>

\* same registry and the same unread bytes in every record: no later
\* operation tells the two filesystems apart
SameToCallers(fs1, fs2) ==
  /\ fs1.Bfs = fs2.Bfs
  /\ Len(fs1.heap) = Len(fs2.heap)
  /\ \A i \in 1..Len(fs1.heap) : BufBytes(fs1.heap[i]) = BufBytes(fs2.heap[i])

\* C8 as stated: ReadFile(p) and Open(p), read to the end, Close return the
\* same bytes and the same outcome and leave filesystems that later
\* operations cannot tell apart.
C8_ReadFileIsOpenReadClose ==
  \A p \in Paths :
    LET a == ReadFileF(FS, p)
        b == OpenReadAllClose(FS, p)
    IN /\ a.bs = b.bs
       /\ (a.e = Nil) <=> (b.e = Nil)
       /\ IsNotFound(a.e) <=> IsNotFound(b.e)
       /\ SameToCallers(a.fs, b.fs)

\* the read position of a record: how many of its written bytes are consumed
Pos(b) == Len(b.wr) - Len(BufBytes(b))

\* C9: for every record, the bytes handed out by its Reads followed by its
\* unread bytes are the bytes written to it, in order; a Read returns the
\* first unread bytes, as many as fit, and advances the position by the n it
\* returns; with a non-empty buffer it returns end-of-stream exactly when
\* every written byte has been read.
C9_ReadIsFifo ==
  \A i \in 1..Len(heap) :
    /\ heap[i].rd \o BufBytes(heap[i]) = heap[i].wr
    /\ \A n \in 0..MaxBuf :
         LET r == ReadF(FS, i, n)
             b2 == r.fs.heap[i]
         IN /\ r.bs = Take(BufBytes(heap[i]), n)
            /\ r.n = Len(r.bs)
            /\ Pos(b2) = Pos(heap[i]) + r.n
            /\ b2.rd = heap[i].rd \o r.bs
            /\ b2.wr = heap[i].wr
            /\ r.e \in {Nil, EOF}
            /\ n > 0 => ((r.e = EOF) <=> (heap[i].rd = heap[i].wr))

\* a record written, read to the end and past it, written again: bytes
\* consumed, bytes unread, and a buffer that no longer holds the first write
C9_Witness ==
  \E i \in 1..Len(heap) :
    /\ heap[i].rd # <<>> /\ BufBytes(heap[i]) # <<>>
    /\ heap[i].buf # heap[i].wr
    /\ ReadF(FS, i, 1).bs = <<Len(heap[i].rd) + 1>>

\* an unsupported handle operation: the unimplemented error, the filesystem
\* as it was
Unsupported(r) == IsUnimplemented(r.e) /\ r.fs = FS

\* C10: on every record, Close, Stat, ReadAt and Seek return the
\* unimplemented error for every argument and change neither the registry
\* nor any record; after any number of Close calls Read and Write through
\* the handle return and leave what they would have without them.
C10_Unsupported ==
  \A f \in 1..Len(heap) :
    /\ Unsupported(CloseF(FS, f))
    /\ Unsupported(CloseF(CloseF(FS, f).fs, f))
    /\ Unsupported(FileStatF(FS, f))
    /\ \A n \in 0..MaxBuf, off \in 0..1 : Unsupported(ReadAtF(FS, f, n, off))
    /\ \A offset \in -1..1, whence \in 0..2 :
         Unsupported(SeekF(FS, f, offset, whence))
    /\ \A n \in 0..MaxBuf :
         ReadF(CloseF(CloseF(FS, f).fs, f).fs, f, n) = ReadF(FS, f, n)
    /\ \A B \in Contents :
         WriteF(CloseF(CloseF(FS, f).fs, f).fs, f, B) = WriteF(FS, f, B)

\* a handle on a record of the registry that holds consumed and unread
\* bytes, on which Close fails
C10_Witness ==
  \E h \in Handles, p \in Paths :
    /\ hnd[h].rec # NilFile /\ Present(p) /\ Bfs[p] = hnd[h].rec
    /\ Unread(p) # <<>> /\ heap[Bfs[p]].rd # <<>>
    /\ IsUnimplemented(CloseF(FS, hnd[h].rec).e)

\* no record is stored under two paths
OnePathPerRecord(m) ==
  \A p \in DOMAIN m, q \in DOMAIN m : p # q => m[p] # m[q]

\* C11 as stated: in every reachable state no record is stored under two
\* paths, and a successful Rename(old, new) leaves the old key unpopulated
\* and the record under one path only.
C11_RenameAtomicAnyPair ==
  /\ OnePathPerRecord(Bfs)
  /\ \A old \in Paths, new \in Paths :
       Present(old) =>
         LET r == RenameF(FS, old, new)
         IN /\ r.e = Nil
            /\ old \notin DOMAIN r.fs.Bfs
            /\ OnePathPerRecord(r.fs.Bfs)

\* C11 amended: the same for old # new, where the record ends under new
\* alone; Rename(old, old) leaves the key populated with the same record.
C11_RenameAtomic ==
  /\ OnePathPerRecord(Bfs)
  /\ \A old \in Paths, new \in Paths :
       Present(old) =>
         LET r == RenameF(FS, old, new)
         IN /\ r.e = Nil
            /\ OnePathPerRecord(r.fs.Bfs)
            /\ {p \in DOMAIN r.fs.Bfs : r.fs.Bfs[p] = Bfs[old]} = {new}
            /\ old # new => old \notin DOMAIN r.fs.Bfs

\* two records have been created, b was renamed away or a overwritten, and
\* the record at a, which holds bytes, moves to the free path b
C11_Witness ==
  \E a \in Paths, b \in Paths :
    /\ a # b /\ Present(a) /\ ~Present(b) /\ Len(heap) = MaxRec
    /\ Unread(a) # <<>>
    /\ DOMAIN RenameF(FS, a, b).fs.Bfs = {b}

\* the kind of a call's outcome
ErrKind(e) ==
  IF e = Nil THEN "ok"
  ELSE IF IsNotFound(e) THEN "NotFound"
  ELSE IF IsUnimplemented(e) THEN "Unimplemented"
  ELSE "EOF"

\* C12 as stated: every call on the in-memory backend has the outcome the
\* same call has on the OS-backed filesystem holding the same files.
C12_SameOutcomeAsOS ==
  /\ \A p \in Paths :
       /\ ErrKind(OpenF(FS, p).e) = OSOpenKind(FS, p)
       /\ ErrKind(CreateF(FS, p).e) = OSCreateKind(FS, p)
       /\ ErrKind(ReadFileF(FS, p).e) = OSReadFileKind(FS, p)
       /\ ErrKind(StatF(FS, p).e) = OSStatKind(FS, p)
       /\ \A q \in Paths : ErrKind(RenameF(FS, p, q).e) = OSRenameKind(FS, p, q)
  /\ \A f \in 1..Len(heap) :
       /\ ErrKind(CloseF(FS, f).e) = OSCloseKind(FS, f)
       /\ ErrKind(FileStatF(FS, f).e) = OSFileStatKind(FS, f)

\* C12 without the calls whose outcome differs (Stat of a path, Close and
\* Stat of a handle): used to see that the other calls do agree
OutcomesAgreeElsewhere ==
  \A p \in Paths :
    /\ ErrKind(OpenF(FS, p).e) = OSOpenKind(FS, p)
    /\ ErrKind(CreateF(FS, p).e) = OSCreateKind(FS, p)
    /\ ErrKind(ReadFileF(FS, p).e) = OSReadFileKind(FS, p)
    /\ \A q \in Paths : ErrKind(RenameF(FS, p, q).e) = OSRenameKind(FS, p, q)

\* what a write through h1 must show through h2 and through path p
WriteSeen(p, h1, h2) ==
  /\ Present(p)
  /\ \A B \in Contents :
       LET w == WriteF(FS, hnd[h1].rec, B)
           all == BufBytes(heap[hnd[h2].rec]) \o B
       IN /\ ReadFileF(w.fs, p).bs = all
          /\ \A n \in 1..MaxBuf : ReadF(w.fs, hnd[h2].rec, n).bs = Take(all, n)

\* C13 as stated: any two handles that were returned by Open(p) or Create(p)
\* for the same path p, whatever Create and Rename calls came in between,
\* show each other's writes, and so does ReadFile(p).
C13_AliasingAlways ==
  \A p \in Paths, h1 \in Handles, h2 \in Handles :
    (/\ h1 # h2
     /\ hnd[h1].rec # NilFile /\ hnd[h1].path = p
     /\ hnd[h2].rec # NilFile /\ hnd[h2].path = p) => WriteSeen(p, h1, h2)

\* C13 amended: two handles returned by Open(p) or Create(p) with no Create
\* and no successful Rename after the earlier of the two calls are the record
\* stored at p: a write through one is what a Read through the other and
\* ReadFile(p) see.
C13_AliasingWhileUntouched ==
  \A p \in Paths, h1 \in Handles, h2 \in Handles :
    (/\ h1 # h2
     /\ hnd[h1].live /\ hnd[h1].path = p
     /\ hnd[h2].live /\ hnd[h2].path = p) =>
      /\ hnd[h1].rec = hnd[h2].rec /\ Present(p) /\ hnd[h1].rec = Bfs[p]
      /\ WriteSeen(p, h1, h2)

\* h1 comes from Create(p) and h2 from the Open(p) after it; the record holds
\* bytes, and a byte written through h1 is the next one read through h2
C13_Witness ==
  \E p \in Paths :
    /\ hnd["h1"].live /\ ~hnd["h1"].clean /\ hnd["h1"].path = p
    /\ hnd["h2"].clean /\ hnd["h2"].path = p
    /\ heap[hnd["h1"].rec].wr # <<>> /\ BufBytes(heap[hnd["h2"].rec]) = <<>>
    /\ ReadF(WriteF(FS, hnd["h1"].rec, <<1>>).fs, hnd["h2"].rec, 1).bs = <<1>>

\* C14: when a and b are distinct paths both present, Rename(a, b) succeeds,
\* leaves b mapped to the record formerly at a and a absent, leaves the
\* record formerly at b under no path, removes exactly one entry, and leaves
\* every other path and every record's content as they were.
C14_RenameOntoOccupied ==
  \A a \in PathsIn, b \in PathsIn :
    (a # b /\ Present(a) /\ Present(b)) =>
      LET r == RenameF(FS, a, b)
          m == r.fs.Bfs
      IN /\ r.e = Nil
         /\ b \in DOMAIN m /\ m[b] = Bfs[a]
         /\ a \notin DOMAIN m
         /\ \A q \in DOMAIN m : m[q] # Bfs[b]
         /\ Cardinality(DOMAIN m) = Cardinality(DOMAIN Bfs) - 1
         /\ \A q \in PathsIn \ {a, b} :
              /\ q \in DOMAIN m <=> Present(q)
              /\ Present(q) => m[q] = Bfs[q]
         /\ r.fs.heap = heap

\* three paths are present, a and a third path hold bytes, and a is renamed
\* onto b
C14_Witness ==
  \E a \in PathsIn, b \in PathsIn, c \in PathsIn :
    /\ a # b /\ a # c /\ b # c
    /\ Present(a) /\ Present(b) /\ Present(c)
    /\ Unread(a) # <<>> /\ Unread(c) # <<>>
    /\ DOMAIN RenameF(FS, a, b).fs.Bfs = {b, c}

\* C15: for a present path ReadFile returns the bytes written to its record
\* that no Read has consumed, with no error, and leaves the filesystem as it
\* was, so that a second ReadFile returns the same bytes; for an absent path
\* it returns NotFound and leaves the filesystem as it was.
C15_ReadFileReadsOnly ==
  \A p \in Paths :
    LET r == ReadFileF(FS, p)
    IN /\ r.fs = FS
       /\ IF Present(p)
          THEN /\ r.e = Nil
               /\ r.bs = Drop(heap[Bfs[p]].wr, Len(heap[Bfs[p]].rd))
               /\ ReadFileF(r.fs, p).bs = r.bs
          ELSE IsNotFound(r.e) /\ r.bs = <<>>

\* a record with bytes consumed and bytes unread, whose buffer was reset
\* between its writes, read by ReadFile
C15_Witness ==
  \E p \in Paths :
    /\ Present(p) /\ heap[Bfs[p]].rd # <<>> /\ Unread(p) # <<>>
    /\ heap[Bfs[p]].buf # heap[Bfs[p]].wr
    /\ ReadFileF(FS, p).bs = <<Len(heap[Bfs[p]].wr)>>

\* C16: Stat(p) returns no metadata and no error for every path, present or
\* not, and leaves the registry and every record as they were.
C16_StatSaysNothing ==
  \A p \in Paths :
    LET r == StatF(FS, p)
    IN r.info = "nil" /\ r.e = Nil /\ r.fs.Bfs = Bfs /\ r.fs.heap = heap

\* one path holds bytes and the other is absent when Stat is called on both
C16_Witness ==
  \E p \in Paths, q \in Paths :
    /\ Present(p) /\ Unread(p) # <<>> /\ ~Present(q)
    /\ StatF(FS, p).e = Nil /\ StatF(FS, q).e = Nil

\* the registry after a call is the registry before it
KeepsRegistry(r) == r.fs.Bfs = Bfs

====
